---- MODULE Spec2Model ----
(***************************************************************************)
(* Real-time synchronisation layer of the whiteboard front end:            *)
(*   - WebSocketService   (frontend/src/services/websocket.ts)             *)
(*   - SessionManager     (frontend/src/services/whiteboardInteraction.ts) *)
(*   - Whiteboard         (components/Whiteboard/WhiteboardToolbar.tsx)    *)
(*                                                                         *)
(* websocket.ts declares emit, attemptReconnection and setupEventListeners *)
(* twice inside the class body; the later declaration replaces the earlier *)
(* one at run time, so the model follows lines 459-489, 494-523, 562-628.  *)
(* connect() registers its own connect / connect_error / disconnect        *)
(* handlers (lines 83-111) and then calls setupEventListeners(), which     *)
(* registers a second handler for each of these events; a socket event     *)
(* runs the handlers in registration order.                                *)
(*                                                                         *)
(* connect() overwrites this.socket without closing the socket it held:    *)
(* that socket stays open with its handlers and goes on firing events.     *)
(* An await of a promise that is settled already continues in a microtask, *)
(* after the calls the application makes in the same task.                 *)
(***************************************************************************)
EXTENDS Integers, Sequences, FiniteSets, TLC

\* ---------------------------------------------------------------- constants
maxReconnectAttempts == 5
reconnectDelay == 1000
JitterRange == 1000
MaxBackoff == 30000
GraceDelay == 5000
AckTimeout == 10000
MaxAge == 300000
MaxRetries == 3
maxHistorySize == 50

\* ------------------------------------------------------------------- bounds
MaxMsgs == 2        \* API calls that emit a message
MaxAdvances == 1    \* steps of the clock, delivery specification
MaxConnAdvances == 3 \* steps of the clock, connection specification
MaxTimers == 1      \* reconnect / grace timers pending at once
MaxCallbacks == 1   \* registered connection-status callbacks
MaxPendingJoins == 1 \* SessionManager calls suspended at an await
MaxLoads == 1       \* loadFromJSON calls not yet completed
MaxShapes == 1      \* objects added to the canvas by the local user
MaxRedoDepth == 2   \* undone states kept after the current index
MaxSnapshots == 3   \* history entries, editing specification
MaxRetryAdvances == 5 \* steps of the clock, reconnection specification
MaxReplaced == 1    \* sockets replaced by a later connect() and left open
MaxGraceAdvances == 3 \* clock steps of the grace-period specification

TimeSteps == {10000, 300001}
ConnStep == 16000 + JitterRange \* no reconnection delay is longer
SessionStart == 10000
Jitters == {0, 999}
Sessions == {"s1", "s2"}
Users == {"u1"}
SelfUser == "u1"
OtherUser == "u2"
RemoteIds == {11, 12}
NoId == 0
UpdateTypes == {"object_added", "object_modified", "object_removed", "clear",
                "draw", "erase"}
SendEvents == {"canvas_update", "audio_chunk", "chat_message", "user_cursor"}
Reasons == {"io server disconnect", "transport close"}
\* The socket events for which connect() and setupEventListeners register the
\* service's own handlers (the handler of 'pong' only logs).
SvcEvents == {"connect", "connect_error", "disconnect", "reconnect", "error",
              "reconnect_error", "reconnect_failed"}
NoSession == "null"

VARIABLES
  socket,            \* this.socket # null
  sockConnected,     \* socket.connected, maintained by the transport
  isConnected,       \* this.isConnected
  reconnectAttempts, \* this.reconnectAttempts
  messageQueue,      \* this.messageQueue
  heartbeat,         \* this.heartbeatInterval # null
  timers,            \* setTimeout callbacks of attemptReconnection / grace
  acks,              \* emits handed to the socket whose promise is pending
  sessionId,         \* this.sessionId
  userId,            \* this.userId
  statusCbs,         \* this.connectionStatusCallbacks.length
  connectPromise,    \* promise returned by the latest connect()
  online,            \* navigator.onLine
  now,               \* Date.now()
  nextId,            \* next fresh payload id
  settled,           \* promises of API calls settled by the last step
  emitted,           \* socket.emit calls made by the last step
  notified,          \* status snapshots delivered by the last step
  connectCalls,      \* socket.connect() calls made by the last step
  currentSession,    \* SessionManager.currentSession
  participants,      \* keys of SessionManager.participants
  smCalls,           \* SessionManager calls suspended at an await
  mounted,           \* the Whiteboard's synchronisation effect has run
  canvasObjects,     \* ids of canvas.getObjects(), in stacking order
  isReceivingUpdate, \* the React state, as of the latest setState
  handlerFlag,       \* isReceivingUpdate as captured by the live handlers
  listening,         \* handleCanvasUpdate is registered on this.socket
  pendingLoads,      \* loadFromJSON calls whose callback has not run yet
  sentUpdates,       \* webSocketService.sendCanvasUpdate calls, last step
  smListening,       \* events of this.socket that carry a SessionManager handler
  svcListening,      \* events of this.socket that carry the service's handlers
  received,          \* server or user event handled by the last step
  enableRealTimeSync, \* the Whiteboard's enableRealTimeSync prop
  history,           \* WhiteboardHistory.history
  currentIndex,      \* WhiteboardHistory.currentIndex
  historyLog,        \* WhiteboardHistory calls made by the last step
  queueInterval,     \* the interval of startMessageQueueProcessor is set
  replaced,          \* sockets that a later connect() replaced, oldest first:
                     \* connected (its transport), promise (of the connect()
                     \* that created it), awaited (a SessionManager call is
                     \* suspended on that promise), smListening / listening
                     \* (the handlers registered on it through on()),
                     \* svcListening (the service's handlers left on it)
  microtasks,        \* continuations of awaits on promises already settled
  hung               \* a handler is in a loop that never ends

vars == <<socket, sockConnected, isConnected, reconnectAttempts, messageQueue,
          heartbeat, timers, acks, sessionId, userId, statusCbs,
          connectPromise, online, now, nextId, settled, emitted,
          notified, connectCalls, currentSession, participants, smCalls,
          mounted, canvasObjects, isReceivingUpdate, handlerFlag, listening,
          pendingLoads, sentUpdates, smListening, received,
          enableRealTimeSync, history, currentIndex, historyLog,
          queueInterval, replaced, microtasks, hung, svcListening>>

Min(a, b) == IF a < b THEN a ELSE b

RECURSIVE Pow2(_)
Pow2(n) == IF n <= 0 THEN 1 ELSE 2 * Pow2(n - 1)

\* The service state as one record, so that handlers compose as functions.
St == [socket |-> socket, sockConnected |-> sockConnected,
       isConnected |-> isConnected, reconnectAttempts |-> reconnectAttempts,
       messageQueue |-> messageQueue, heartbeat |-> heartbeat,
       timers |-> timers, acks |-> acks, sessionId |-> sessionId,
       userId |-> userId, statusCbs |-> statusCbs,
       connectPromise |-> connectPromise, online |-> online, now |-> now,
       nextId |-> nextId, settled |-> <<>>,
       emitted |-> <<>>, notified |-> <<>>, connectCalls |-> 0,
       currentSession |-> currentSession, participants |-> participants,
       smCalls |-> smCalls, mounted |-> mounted,
       canvasObjects |-> canvasObjects,
       isReceivingUpdate |-> isReceivingUpdate, handlerFlag |-> handlerFlag,
       listening |-> listening, pendingLoads |-> pendingLoads,
       sentUpdates |-> <<>>, smListening |-> smListening,
       svcListening |-> svcListening,
       received |-> <<>>, enableRealTimeSync |-> enableRealTimeSync,
       history |-> history, currentIndex |-> currentIndex,
       historyLog |-> <<>>, queueInterval |-> queueInterval,
       replaced |-> replaced, microtasks |-> microtasks, hung |-> hung]

\* The calls an application can make one after the other within one task.
\* Every other step is an event, a timer or the clock: the event loop runs it
\* only once the task before it and the continuations it left have finished,
\* and runs nothing more once a handler does not return.
SameTask == {"connect", "disconnect", "cleanup", "off", "onConnectionStatusChange",
             "removeConnectionStatusCallback", "send", "joinSession",
             "leaveSession", "smJoinSession", "smLeaveSession",
             "createSession", "endSession", "smCleanup", "microtask"}

Commit(s, op) ==
  /\ ~hung
  /\ op \in SameTask \/ microtasks = <<>>
  /\ socket' = s.socket
  /\ sockConnected' = s.sockConnected
  /\ isConnected' = s.isConnected
  /\ reconnectAttempts' = s.reconnectAttempts
  /\ messageQueue' = s.messageQueue
  /\ heartbeat' = s.heartbeat
  /\ timers' = s.timers
  /\ acks' = s.acks
  /\ sessionId' = s.sessionId
  /\ userId' = s.userId
  /\ statusCbs' = s.statusCbs
  /\ connectPromise' = s.connectPromise
  /\ online' = s.online
  /\ now' = s.now
  /\ nextId' = s.nextId
  /\ settled' = s.settled
  /\ emitted' = s.emitted
  /\ notified' = s.notified
  /\ connectCalls' = s.connectCalls
  /\ currentSession' = s.currentSession
  /\ participants' = s.participants
  /\ smCalls' = s.smCalls
  /\ mounted' = s.mounted
  /\ canvasObjects' = s.canvasObjects
  /\ isReceivingUpdate' = s.isReceivingUpdate
  /\ handlerFlag' = s.handlerFlag
  /\ listening' = s.listening
  /\ pendingLoads' = s.pendingLoads
  /\ sentUpdates' = s.sentUpdates
  /\ smListening' = s.smListening
  /\ svcListening' = s.svcListening
  /\ received' = s.received
  /\ enableRealTimeSync' = s.enableRealTimeSync
  /\ history' = s.history
  /\ currentIndex' = s.currentIndex
  /\ historyLog' = s.historyLog
  /\ queueInterval' = s.queueInterval
  /\ replaced' = s.replaced
  /\ microtasks' = s.microtasks
  /\ hung' = s.hung

\* ------------------------------------------------------------ notifications
\* notifyConnectionStatus(error): the snapshot handed to every callback.
Snapshot(s, err) ==
  [isConnected |-> s.isConnected,
   reconnectAttempts |-> s.reconnectAttempts,
   lastError |-> err,
   networkStatus |-> IF s.online
                     THEN (IF s.isConnected THEN "online" ELSE "unstable")
                     ELSE "offline",
   calls |-> s.statusCbs]

\* notified records the callback invocations: nothing is delivered when no
\* callback is registered.
notifyConnectionStatus(s, err) ==
  IF s.statusCbs = 0 THEN s
  ELSE [s EXCEPT !.notified = Append(@, Snapshot(s, err))]

\* ---------------------------------------------------------- heartbeat
startHeartbeat(s) == [s EXCEPT !.heartbeat = TRUE]
stopHeartbeat(s) == [s EXCEPT !.heartbeat = FALSE]

\* ---------------------------------------------------------------- emit
\* A payload is identified by id; sid / uid are the session and user ids a
\* join_session / leave_session message carries; sends counts the socket.emit
\* calls made with this payload so far.
Payload(event, id, sid, uid) ==
  [event |-> event, id |-> id, sid |-> sid, uid |-> uid, sends |-> 0]

\* The event and data of a queued or acknowledged message.
PayloadOf(m) ==
  [event |-> m.event, id |-> m.id, sid |-> m.sid, uid |-> m.uid,
   sends |-> m.sends]

\* The promise of the API call that made payload id settled in this step.
Settle(s, id, how) == [s EXCEPT !.settled = Append(@, [id |-> id, how |-> how])]

HasSettled(s, id) == \E i \in 1..Len(s.settled) : s.settled[i].id = id

\* emit(event, data).  origin tells what the caller does with the promise:
\* "direct" (an API call), "drain" (processMessageQueue: log on failure),
\* "sweep" (the periodic processor: re-queue on failure).  ts and r are the
\* timestamp and retries of the queued message a sweep is sending.  sock is
\* the socket whose emit was called: this.socket is the socket after the
\* replaced ones; 0 stands for a socket that disconnect() has closed since.
\* Mutant: the message goes to the socket whenever a socket exists.
emit_IgnoresConnection(s, p, origin, ts, r) ==
  IF s.socket
  THEN [s EXCEPT
          !.acks = @ \cup {[event |-> p.event, id |-> p.id, sid |-> p.sid,
                            uid |-> p.uid, sends |-> p.sends + 1,
                            sentAt |-> s.now, origin |-> origin,
                            timestamp |-> ts, retries |-> r,
                            sock |-> Len(s.replaced) + 1]},
          !.emitted = Append(@, p)]
  ELSE LET t == [s EXCEPT
                   !.messageQueue =
                      Append(@, [event |-> p.event, id |-> p.id,
                                 sid |-> p.sid, uid |-> p.uid,
                                 sends |-> p.sends, timestamp |-> s.now,
                                 retries |-> 0])]
       IN IF origin = "direct" THEN Settle(t, p.id, "resolved") ELSE t

emit(s, p, origin, ts, r) ==
  IF s.socket /\ s.isConnected
  THEN [s EXCEPT
          !.acks = @ \cup {[event |-> p.event, id |-> p.id, sid |-> p.sid,
                            uid |-> p.uid, sends |-> p.sends + 1,
                            sentAt |-> s.now, origin |-> origin,
                            timestamp |-> ts, retries |-> r,
                            sock |-> Len(s.replaced) + 1]},
          !.emitted = Append(@, p)]
  ELSE LET t == [s EXCEPT
                   !.messageQueue =
                      Append(@, [event |-> p.event, id |-> p.id,
                                 sid |-> p.sid, uid |-> p.uid,
                                 sends |-> p.sends, timestamp |-> s.now,
                                 retries |-> 0])]
       IN IF origin = "direct" THEN Settle(t, p.id, "resolved") ELSE t

\* processMessageQueue(): shift and emit until the queue is empty.  Its only
\* callers are the connect handlers, which set isConnected first.  Without
\* this.socket (the event came from a replaced socket after disconnect())
\* emit pushes every message it is given back, and the loop never ends.
RECURSIVE processMessageQueue(_)
processMessageQueue(s) ==
  IF s.messageQueue = <<>> THEN s
  ELSE IF ~(s.socket /\ s.isConnected) THEN [s EXCEPT !.hung = TRUE]
  ELSE LET m == Head(s.messageQueue)
           t == [s EXCEPT !.messageQueue = Tail(@)]
       IN processMessageQueue(
            emit(t, PayloadOf(m), "drain", 0, 0))

\* Mutant: the pass takes the snapshot from its end.
RECURSIVE sweepMessages_Lifo(_, _, _)
sweepMessages_Lifo(s, msgs, t0) ==
  IF msgs = <<>> THEN s
  ELSE LET m == msgs[Len(msgs)]
           rest == SubSeq(msgs, 1, Len(msgs) - 1)
       IN IF t0 - m.timestamp > MaxAge
          THEN sweepMessages_Lifo(s, rest, t0)
          ELSE IF m.retries >= MaxRetries
          THEN sweepMessages_Lifo(s, rest, t0)
          ELSE sweepMessages_Lifo(
                 emit(s, PayloadOf(m), "sweep", m.timestamp, m.retries),
                 rest, t0)

\* One pass of the interval callback of startMessageQueueProcessor over the
\* snapshot msgs; the queue itself has been reset to [] by the caller.
RECURSIVE sweepMessages(_, _, _)
sweepMessages(s, msgs, t0) ==
  IF msgs = <<>> THEN s
  ELSE LET m == Head(msgs)
       IN IF t0 - m.timestamp > MaxAge
          THEN sweepMessages(s, Tail(msgs), t0)
          ELSE IF m.retries >= MaxRetries
          THEN sweepMessages(s, Tail(msgs), t0)
          ELSE sweepMessages(
                 emit(s, PayloadOf(m), "sweep", m.timestamp, m.retries),
                 Tail(msgs), t0)

queueProcessorTick(s) ==
  IF s.isConnected /\ Len(s.messageQueue) > 0
  THEN sweepMessages([s EXCEPT !.messageQueue = <<>>], s.messageQueue, s.now)
  ELSE s

\* ------------------------------------------------------- reconnection
\* Mutant: the exponent is off by one.
BaseDelay_OffByOne(n) == reconnectDelay * Pow2(n)

BaseDelay(n) == reconnectDelay * Pow2(n - 1)
BackoffDelay(n, jitter) == Min(BaseDelay(n) + jitter, MaxBackoff)

\* Mutant: at the cap the attempt returns without reporting it.
attemptReconnection_SilentCap(s, jitter) ==
  IF s.reconnectAttempts >= maxReconnectAttempts
  THEN s
  ELSE IF ~s.online
  THEN s
  ELSE LET n == s.reconnectAttempts + 1
           d == BackoffDelay(n, jitter)
           t == [s EXCEPT !.reconnectAttempts = n]
       IN [notifyConnectionStatus(t, "none") EXCEPT
             !.timers = Append(@, [kind |-> "reconnect", due |-> s.now + d,
                                   delay |-> d, attempt |-> n,
                                   jitter |-> jitter])]

attemptReconnection(s, jitter) ==
  IF s.reconnectAttempts >= maxReconnectAttempts
  THEN notifyConnectionStatus(s, "Max reconnection attempts reached")
  ELSE IF ~s.online
  THEN s
  ELSE LET n == s.reconnectAttempts + 1
           d == BackoffDelay(n, jitter)
           t == [s EXCEPT !.reconnectAttempts = n]
       IN [notifyConnectionStatus(t, "none") EXCEPT
             !.timers = Append(@, [kind |-> "reconnect", due |-> s.now + d,
                                   delay |-> d, attempt |-> n,
                                   jitter |-> jitter])]

\* ------------------------------------------------- socket event handlers
\* connect(): handlers registered at lines 83, 94, 100.
\* resolve() and reject(error) of lines 91 and 97 act on the promise of the
\* connect() call that created the socket: see connectSettled.
onConnectFirst(s) ==
  processMessageQueue([s EXCEPT !.isConnected = TRUE,
                                !.reconnectAttempts = 0])

onConnectErrorFirst(s) == [s EXCEPT !.isConnected = FALSE]

onDisconnectFirst(s, reason, jitter) ==
  LET t == [s EXCEPT !.isConnected = FALSE]
  IN IF reason = "io server disconnect" THEN t
     ELSE attemptReconnection(t, jitter)

\* setupEventListeners(): handlers registered at lines 566, 577, 584, 612.
\* A first handler that does not return keeps the second one from running.
onConnect(s) ==
  LET t == [s EXCEPT !.isConnected = TRUE, !.reconnectAttempts = 0]
  IN IF s.hung THEN s
     ELSE processMessageQueue(
            notifyConnectionStatus(startHeartbeat(t), "none"))

onConnectError(s, msg) ==
  notifyConnectionStatus(stopHeartbeat([s EXCEPT !.isConnected = FALSE]), msg)

onDisconnect(s, reason, jitter) ==
  LET t == notifyConnectionStatus(
             stopHeartbeat([s EXCEPT !.isConnected = FALSE]), reason)
  IN IF reason = "io server disconnect"
     THEN [t EXCEPT !.timers = Append(@, [kind |-> "grace",
                                          due |-> s.now + GraceDelay,
                                          delay |-> GraceDelay,
                                          attempt |-> 0, jitter |-> 0])]
     ELSE attemptReconnection(t, jitter)

onReconnect(s) ==
  notifyConnectionStatus(
    [s EXCEPT !.isConnected = TRUE, !.reconnectAttempts = 0], "none")

\* ---------------------------------------------------------------- clock
Ticks(t) == (t \div 300001) + ((t % 300001) \div 10000)

\* ------------------------------------------------------------------ Init
\* currentSession = null
NullSession == [id |-> NoSession, userId |-> NoSession, participants |-> <<>>,
                isActive |-> FALSE]

\* JSON.stringify(canvas.toJSON()): toJSON serializes the standard properties
\* of every object, so the id given by handleObjectAdded is not part of it.
Serialize(objs) == [i \in 1..Len(objs) |-> NoId]

\* The fields after the constructors have run, at time t with navigator.onLine
\* = o: WebSocketService (lines 49-66), SessionManager (632-639, whose
\* webSocketService.on calls register nothing while there is no socket),
\* the Whiteboard's state (205-214) and its WhiteboardHistory, whose
\* constructor saves the empty canvas.
Pristine(t, o) ==
  [socket |-> FALSE, sockConnected |-> FALSE, isConnected |-> FALSE,
   reconnectAttempts |-> 0, messageQueue |-> <<>>, heartbeat |-> FALSE,
   timers |-> <<>>, acks |-> {}, sessionId |-> NoSession,
   userId |-> NoSession, statusCbs |-> 0, connectPromise |-> "none",
   online |-> o, now |-> t, nextId |-> 1, settled |-> <<>>,
   emitted |-> <<>>, notified |-> <<>>, connectCalls |-> 0,
   currentSession |-> NullSession, participants |-> {}, smCalls |-> <<>>,
   mounted |-> FALSE, canvasObjects |-> <<>>, isReceivingUpdate |-> FALSE,
   handlerFlag |-> FALSE, listening |-> FALSE, pendingLoads |-> <<>>,
   sentUpdates |-> <<>>, smListening |-> {}, svcListening |-> {},
   received |-> <<>>,
   enableRealTimeSync |-> TRUE, history |-> <<Serialize(<<>>)>>,
   currentIndex |-> 0, historyLog |-> <<>>, queueInterval |-> TRUE,
   replaced |-> <<>>, microtasks |-> <<>>, hung |-> FALSE]

VarsAre(s) ==
  /\ socket = s.socket
  /\ sockConnected = s.sockConnected
  /\ isConnected = s.isConnected
  /\ reconnectAttempts = s.reconnectAttempts
  /\ messageQueue = s.messageQueue
  /\ heartbeat = s.heartbeat
  /\ timers = s.timers
  /\ acks = s.acks
  /\ sessionId = s.sessionId
  /\ userId = s.userId
  /\ statusCbs = s.statusCbs
  /\ connectPromise = s.connectPromise
  /\ online = s.online
  /\ now = s.now
  /\ nextId = s.nextId
  /\ settled = s.settled
  /\ emitted = s.emitted
  /\ notified = s.notified
  /\ connectCalls = s.connectCalls
  /\ currentSession = s.currentSession
  /\ participants = s.participants
  /\ smCalls = s.smCalls
  /\ mounted = s.mounted
  /\ canvasObjects = s.canvasObjects
  /\ isReceivingUpdate = s.isReceivingUpdate
  /\ handlerFlag = s.handlerFlag
  /\ listening = s.listening
  /\ pendingLoads = s.pendingLoads
  /\ sentUpdates = s.sentUpdates
  /\ smListening = s.smListening
  /\ svcListening = s.svcListening
  /\ received = s.received
  /\ enableRealTimeSync = s.enableRealTimeSync
  /\ history = s.history
  /\ currentIndex = s.currentIndex
  /\ historyLog = s.historyLog
  /\ queueInterval = s.queueInterval
  /\ replaced = s.replaced
  /\ microtasks = s.microtasks
  /\ hung = s.hung

InitAt(t) == \E o \in BOOLEAN : VarsAre(Pristine(t, o))

Init == InitAt(0)

\* ------------------------------------------------------------ API calls
RemoveAt(seq, i) == SubSeq(seq, 1, i - 1) \o SubSeq(seq, i + 1, Len(seq))

\* The positions in smCalls of the SessionManager calls suspended on the
\* promise of a connect() call (lines 658 and 673), oldest first.  Each of
\* them made the connect() call it awaits, so each awaits another socket.
ConnectPcs == {"awaitConnect", "createConnect"}

ConnectWaits(s) ==
  SelectSeq([i \in 1..Len(s.smCalls) |-> i],
            LAMBDA i : s.smCalls[i].pc \in ConnectPcs)

\* How many of the replaced sockets 1..i have a caller suspended on their
\* connect() promise, and whether this.socket has one.
AwaitedReplaced(s, i) == Cardinality({j \in 1..i : s.replaced[j].awaited})

Awaited(s) == Len(ConnectWaits(s)) > AwaitedReplaced(s, Len(s.replaced))

\* connect(serverUrl, token): a new socket becomes this.socket and the
\* handlers are registered on it; isConnected is left as it was.  A socket
\* that was this.socket before is not closed: it keeps the handlers of lines
\* 83-111 and 566-627, the listeners registered on it through on(), the
\* resolve / reject of the connect() call that created it and the
\* acknowledgment callbacks of the emits made on it.
connect(s) ==
  LET old == [connected |-> s.sockConnected, promise |-> s.connectPromise,
              awaited |-> Awaited(s), smListening |-> s.smListening,
              listening |-> s.listening, svcListening |-> s.svcListening]
  IN [s EXCEPT !.socket = TRUE, !.sockConnected = FALSE,
               !.connectPromise = "pending", !.listening = FALSE,
               !.smListening = {}, !.svcListening = SvcEvents,
               !.replaced = IF s.socket THEN Append(@, old) ELSE @]

\* Bound on the sockets left behind: a connect() that replaces one needs room.
ReplacedRoom(k) == Len(replaced) + k <= MaxReplaced

Connect ==
  /\ ReplacedRoom(IF socket THEN 1 ELSE 0)
  /\ Commit(connect(St), "connect")

\* connect() called by an application that holds no socket.
ConnectFresh == ~socket /\ Connect

\* Bound on pending timers: a step that schedules a reconnect timer needs
\* room among the reconnect timers, one that starts a grace period needs room
\* among the grace timers.
TimerRoom(s) ==
  \A kind \in {"reconnect", "grace"} :
    LET Pending(ts) == Len(SelectSeq(ts, LAMBDA t : t.kind = kind))
    IN Pending(s.timers) > Pending(timers) => Pending(timers) < MaxTimers

\* A step that schedules timers while none is pending.
OneBatch == Len(timers') > Len(timers) => Len(timers) < MaxTimers

\* Math.random() of line 511 is called by an attemptReconnection that
\* schedules a timer: the handler calls it (drawn), the k attempts made before
\* it in the same step leave the counter under the cap, the browser is online.
JittersIf(drawn, k) ==
  IF drawn /\ online /\ reconnectAttempts + k < maxReconnectAttempts
  THEN Jitters
  ELSE {0}

\* The disconnect event of a socket whose handlers are those of s: the handler
\* of connect() (100-111), then the handler of setupEventListeners (584-597),
\* unless off('disconnect') has removed them.
fireDisconnect(s, listeners, reason, j1, j2) ==
  IF "disconnect" \in listeners
  THEN onDisconnect(onDisconnectFirst(s, reason, j1), reason, j2)
  ELSE s

\* disconnect(): socket.disconnect() closes this.socket.  What the call fires
\* is the socket library's, which is not part of the repository: the
\* socket.io client fires the disconnect event of a connected socket, with
\* reason 'io client disconnect', inside that call, while this.socket is
\* still set; a socket whose disconnect() only closes, as the one the
\* repository's tests put in its place, fires none.  Both are kept (fires),
\* and a socket that has not connected fires none.  The closed socket fires
\* no event afterwards: its connect() promise never settles and the emits
\* made on it are never acknowledged.  A caller suspended on that promise is
\* never resumed and is dropped here.
disconnect(s, fires, j1, j2) ==
  LET waits == ConnectWaits(s)
      e == IF s.sockConnected /\ fires
           THEN fireDisconnect(s, s.svcListening, "io client disconnect",
                               j1, j2)
           ELSE s
  IN IF s.socket
     THEN [e EXCEPT !.socket = FALSE, !.sockConnected = FALSE,
                    !.isConnected = FALSE, !.sessionId = NoSession,
                    !.userId = NoSession, !.listening = FALSE,
                    !.smListening = {}, !.svcListening = {},
                    !.acks = {IF a.sock = Len(s.replaced) + 1
                              THEN [a EXCEPT !.sock = 0] ELSE a : a \in @},
                    !.smCalls = IF Awaited(s)
                                THEN RemoveAt(@, waits[Len(waits)]) ELSE @]
     ELSE s

Disconnect ==
  \E fires \in IF sockConnected THEN BOOLEAN ELSE {FALSE} :
    \E j1 \in JittersIf(fires, 0), j2 \in JittersIf(fires, 1) :
      LET s == disconnect(St, fires, j1, j2)
      IN TimerRoom(s) /\ Commit(s, "disconnect")

\* cleanup(): the heartbeat is stopped and the callbacks and the queue are
\* emptied before disconnect() runs.
cleanup(s, fires, j1, j2) ==
  disconnect([stopHeartbeat(s) EXCEPT !.statusCbs = 0, !.messageQueue = <<>>],
             fires, j1, j2)

Cleanup ==
  \E fires \in IF sockConnected THEN BOOLEAN ELSE {FALSE} :
    \E j1 \in JittersIf(fires, 0), j2 \in JittersIf(fires, 1) :
      LET s == cleanup(St, fires, j1, j2)
      IN TimerRoom(s) /\ Commit(s, "cleanup")

OnConnectionStatusChange ==
  /\ statusCbs < MaxCallbacks
  /\ Commit([St EXCEPT !.statusCbs = @ + 1], "onConnectionStatusChange")

\* removeConnectionStatusCallback(callback) with a registered callback; with
\* any other argument indexOf gives -1 and nothing changes.
removeConnectionStatusCallback(s) ==
  IF s.statusCbs > 0 THEN [s EXCEPT !.statusCbs = @ - 1] ELSE s

RemoveConnectionStatusCallback ==
  Commit(removeConnectionStatusCallback(St), "removeConnectionStatusCallback")

\* The events for which the SessionManager registers a handler that changes
\* its state (its handler of 'error' only logs).
SmEvents == {"session_state", "session_join", "session_leave"}

\* off(event) removes every listener of the event from this.socket, the
\* service's own handlers included; off(event, callback) removes that
\* callback if it is registered for the event and nothing otherwise.
\* this.socket stays as it is; without a socket nothing happens.  The
\* callback is none, the handleCanvasUpdate that the Whiteboard registered,
\* or a function that is registered for no event: the handlers of the
\* SessionManager and of the service are closures that no caller can name.
off(s, event, callback) ==
  IF ~s.socket THEN s
  ELSE IF callback = "none"
  THEN [s EXCEPT !.smListening = @ \ {event},
                 !.svcListening = @ \ {event},
                 !.listening = IF event = "canvas_update" THEN FALSE ELSE @]
  ELSE IF callback = "handleCanvasUpdate" /\ event = "canvas_update"
  THEN [s EXCEPT !.listening = FALSE]
  ELSE s

Off(event) ==
  \E cb \in {"none", "handleCanvasUpdate", "other"} :
    Commit(off(St, event, cb), "off")

\* sendCanvasUpdate / sendAudioChunk / sendChatMessage / sendCursorUpdate
Send(ev) ==
  /\ nextId <= MaxMsgs
  /\ Commit(emit([St EXCEPT !.nextId = @ + 1],
                 Payload(ev, nextId, NoSession, NoSession), "direct", 0, 0),
            "send")

joinSession(s, sid, uid) ==
  emit([s EXCEPT !.sessionId = sid, !.userId = uid, !.nextId = @ + 1],
       Payload("join_session", s.nextId, sid, uid), "direct", 0, 0)

JoinSession(sid, uid) ==
  /\ nextId <= MaxMsgs
  /\ Commit(joinSession(St, sid, uid), "joinSession")

\* leaveSession(): the call returns at its await of emit (line 152) and
\* this.sessionId = null (line 155) is the continuation.  When emit queued the
\* message its promise is resolved already and the continuation is a
\* microtask: it runs after the calls the application makes in the same task.
\* When the message went to the socket the continuation follows the
\* acknowledgment: see resolveEmit.
leaveSession(s) ==
  IF s.sessionId # NoSession
  THEN LET t == emit([s EXCEPT !.nextId = @ + 1],
                     Payload("leave_session", s.nextId, s.sessionId,
                             NoSession), "direct", 0, 0)
       IN IF HasSettled(t, s.nextId)
          THEN [t EXCEPT !.microtasks =
                  Append(@, [kind |-> "wsLeft", msg |-> s.nextId])]
          ELSE t
  ELSE s

LeaveSession ==
  /\ sessionId # NoSession => nextId <= MaxMsgs
  /\ Commit(leaveSession(St), "leaveSession")

\* ------------------------------------------------------ SessionManager
isSocketConnected(s) == s.isConnected /\ s.socket /\ s.sockConnected

\* SessionManager.joinSession after its await of webSocketService.joinSession
\* has returned: lines 680-705.
sessionJoined(s, sid, uid) ==
  LET cs == s.currentSession
      joined ==
        IF cs.id # NoSession /\ cs.id = sid
        THEN IF \E i \in 1..Len(cs.participants) : cs.participants[i] = uid
             THEN cs
             ELSE [cs EXCEPT !.participants = Append(@, uid)]
        ELSE [id |-> sid, userId |-> uid, participants |-> <<uid>>,
              isActive |-> TRUE]
  IN [s EXCEPT !.currentSession = joined,
               !.participants = @ \cup {uid}]

\* SessionManager.leaveSession after its await of
\* webSocketService.leaveSession has returned: lines 721-729.  uid is the
\* user id read at line 715 before the await; line 721 throws when the
\* session has been cleared in the meantime.
sessionLeft(s, uid) ==
  IF s.currentSession = NullSession THEN s
  ELSE [s EXCEPT !.participants = @ \ {uid},
                 !.currentSession = NullSession]

\* The call webSocketService.joinSession(sid, uid) of line 677 (joinSession)
\* or 662 (createSession) made by the call c, which is then suspended on the
\* promise of that emit.  When emit queued the message the promise is
\* resolved already and the caller goes on in a microtask.
smJoin(s, c) ==
  LET t == joinSession(s, c.sid, c.uid)
      d == [pc |-> IF c.pc = "createConnect" THEN "createJoin"
                   ELSE "awaitJoin",
            sid |-> c.sid, uid |-> c.uid, msg |-> s.nextId]
      u == [t EXCEPT !.smCalls = Append(@, d)]
  IN IF HasSettled(t, s.nextId)
     THEN [u EXCEPT !.microtasks =
             Append(@, [kind |-> "resume", msg |-> s.nextId])]
     ELSE u

\* The promise of the emit with payload id settled: the first caller
\* suspended on it goes on (ok) or throws.  createSession has nothing left to
\* do but return the session.
joinSettled(s, id, ok) ==
  LET at == SelectSeq([i \in 1..Len(s.smCalls) |-> i],
                      LAMBDA i : /\ s.smCalls[i].pc \notin ConnectPcs
                                 /\ s.smCalls[i].msg = id)
  IN IF at = <<>> THEN s
     ELSE LET c == s.smCalls[at[1]]
              t == [s EXCEPT !.smCalls = RemoveAt(@, at[1])]
          IN IF ~ok THEN t
             ELSE CASE c.pc = "awaitJoin" -> sessionJoined(t, c.sid, c.uid)
                    [] c.pc = "awaitLeave" -> sessionLeft(t, c.uid)
                    [] OTHER -> t

\* The promise of the connect() call that created socket k settles, where 0
\* stands for this.socket and i > 0 for the i-th replaced socket: the caller
\* suspended on it makes its webSocketService.joinSession call (ok) or
\* throws.  A promise settles once.
connectSettled(s, k, ok) ==
  LET waits == ConnectWaits(s)
      pending == IF k = 0 THEN s.connectPromise = "pending"
                 ELSE s.replaced[k].promise = "pending"
      awaited == IF k = 0 THEN Awaited(s) ELSE s.replaced[k].awaited
      pos == IF k = 0 THEN waits[Len(waits)]
             ELSE waits[AwaitedReplaced(s, k)]
      how == IF ok THEN "resolved" ELSE "rejected"
      t == IF k = 0 THEN [s EXCEPT !.connectPromise = how]
           ELSE [s EXCEPT !.replaced[k].promise = how,
                          !.replaced[k].awaited = FALSE]
  IN IF ~pending THEN s
     ELSE IF ~awaited THEN t
     ELSE LET u == [t EXCEPT !.smCalls = RemoveAt(@, pos)]
          IN IF ok THEN smJoin(u, s.smCalls[pos]) ELSE u

\* One continuation: line 155 of leaveSession, which also lets go on the
\* SessionManager call that awaits this leaveSession (line 718), or the rest
\* of a SessionManager call.
runJob(s, j) ==
  IF j.kind = "wsLeft"
  THEN LET t == [s EXCEPT !.sessionId = NoSession]
       IN IF \E i \in 1..Len(s.smCalls) :
               s.smCalls[i].pc = "awaitLeave" /\ s.smCalls[i].msg = j.msg
          THEN [t EXCEPT !.microtasks =
                  Append(@, [kind |-> "resume", msg |-> j.msg])]
          ELSE t
  ELSE joinSettled(s, j.msg, TRUE)

\* The continuations left by the calls of one task run when the task has
\* ended.  The number of promise hops in front of a continuation depends on
\* how the build compiles async functions, so continuations of different
\* calls run in any order.
RunMicrotask ==
  \E i \in 1..Len(microtasks) :
    Commit(runJob([St EXCEPT !.microtasks = RemoveAt(@, i)], microtasks[i]),
           "microtask")

\* The continuations left by an event handler run before the event loop
\* takes its next step.
RECURSIVE runJobs(_)
runJobs(s) ==
  IF s.microtasks = <<>> THEN s
  ELSE runJobs(runJob([s EXCEPT !.microtasks = Tail(@)],
                      Head(s.microtasks)))

\* SessionManager.joinSession(sessionId, userId, username, role)
smJoinSession(s, sid, uid) ==
  LET c == [pc |-> "awaitConnect", sid |-> sid, uid |-> uid, msg |-> 0]
  IN IF ~isSocketConnected(s)
     THEN [connect(s) EXCEPT !.smCalls = Append(@, c)]
     ELSE smJoin(s, c)

\* Bound on payload ids: a step that emits k times needs k fresh ids.
MsgRoom(k) == nextId + k <= MaxMsgs + 1

\* Bounds of a SessionManager call that connects unless isSocketConnected().
JoinRoom ==
  /\ Len(smCalls) < MaxPendingJoins
  /\ MsgRoom(IF isSocketConnected(St) THEN 1 ELSE 0)
  /\ ReplacedRoom(IF ~isSocketConnected(St) /\ socket THEN 1 ELSE 0)

SmJoinSession(sid, uid) ==
  /\ JoinRoom
  /\ Commit(smJoinSession(St, sid, uid), "smJoinSession")

\* SessionManager.createSession(userId, subject): the session is current at
\* once, then the call connects and joins like joinSession; sid is the id
\* made by generateSessionId.  The participants map is not written.
createSession(s, sid, uid) ==
  LET t == [s EXCEPT !.currentSession =
              [id |-> sid, userId |-> uid, participants |-> <<uid>>,
               isActive |-> TRUE]]
      c == [pc |-> "createConnect", sid |-> sid, uid |-> uid, msg |-> 0]
  IN IF ~isSocketConnected(t)
     THEN [connect(t) EXCEPT !.smCalls = Append(@, c)]
     ELSE smJoin(t, c)

\* A generated id differs from the ids in use.
CreateSession(sid, uid) ==
  /\ sid # currentSession.id /\ sid # sessionId
  /\ JoinRoom
  /\ Commit(createSession(St, sid, uid), "createSession")

\* SessionManager.leaveSession(): nothing without a current session; else
\* the session and user ids are read and webSocketService.leaveSession() is
\* awaited, whose promise settles when that call has run to its end; lines
\* 721-729 are the continuation.
smLeaveSession(s) ==
  LET cs == s.currentSession
      t == leaveSession(s)
      c == [pc |-> "awaitLeave", sid |-> cs.id, uid |-> cs.userId,
            msg |-> IF s.sessionId # NoSession THEN s.nextId ELSE 0]
      u == [t EXCEPT !.smCalls = Append(@, c)]
  IN IF cs = NullSession THEN s
     ELSE IF s.sessionId = NoSession
     THEN [u EXCEPT !.microtasks = Append(@, [kind |-> "resume", msg |-> 0])]
     ELSE u

LeaveRoom ==
  /\ Len(smCalls) < MaxPendingJoins
  /\ MsgRoom(IF currentSession # NullSession /\ sessionId # NoSession
             THEN 1 ELSE 0)

SmLeaveSession ==
  /\ LeaveRoom
  /\ Commit(smLeaveSession(St), "smLeaveSession")

\* SessionManager.endSession(): the session is marked as ended at once, then
\* leaveSession() is awaited.
endSession(s) ==
  IF s.currentSession = NullSession THEN s
  ELSE smLeaveSession([s EXCEPT !.currentSession.isActive = FALSE])

EndSession ==
  /\ LeaveRoom
  /\ Commit(endSession(St), "endSession")

\* SessionManager.cleanup(): the participants and the current session are
\* dropped; nothing is sent and the service keeps its session id.
smCleanup(s) ==
  [s EXCEPT !.participants = {}, !.currentSession = NullSession]

SmCleanup == Commit(smCleanup(St), "smCleanup")

\* The handlers registered by setupWebSocketListeners (lines 817-872).
\* Mutant: the snapshot adds the listed users and removes nobody.
onSessionState_KeepsStale(s, sid, users) ==
  LET cs == s.currentSession
  IN IF cs # NullSession /\ cs.id = sid
     THEN [s EXCEPT !.participants = @ \cup users]
     ELSE s

\* session_state: every listed user that is missing is added, then every
\* participant that is not listed is deleted.
onSessionState(s, sid, users) ==
  LET cs == s.currentSession
      added == s.participants \cup users
  IN IF cs # NullSession /\ cs.id = sid
     THEN [s EXCEPT !.participants = {u \in added : u \in users}]
     ELSE s

onSessionJoin(s, sid, uid) ==
  LET cs == s.currentSession
  IN IF cs # NullSession /\ cs.id = sid
     THEN [s EXCEPT !.participants = @ \cup {uid}]
     ELSE s

onSessionLeave(s, sid, uid) ==
  LET cs == s.currentSession
  IN IF cs # NullSession /\ cs.id = sid
     THEN [s EXCEPT !.participants = @ \ {uid}]
     ELSE s

\* The users a server message can name.
Members == Users \cup {OtherUser}

\* The socket delivers a session event to the handler registered on it.
SessionStateReceived(sid, users) ==
  /\ socket /\ sockConnected /\ "session_state" \in smListening
  /\ Commit([onSessionState(St, sid, users) EXCEPT
               !.received = <<[event |-> "session_state", sid |-> sid,
                               users |-> users]>>], "sessionState")

SessionJoinReceived(sid, uid) ==
  /\ socket /\ sockConnected /\ "session_join" \in smListening
  /\ Commit([onSessionJoin(St, sid, uid) EXCEPT
               !.received = <<[event |-> "session_join", sid |-> sid,
                               users |-> {uid}]>>], "sessionJoin")

SessionLeaveReceived(sid, uid) ==
  /\ socket /\ sockConnected /\ "session_leave" \in smListening
  /\ Commit([onSessionLeave(St, sid, uid) EXCEPT
               !.received = <<[event |-> "session_leave", sid |-> sid,
                               users |-> {uid}]>>], "sessionLeave")

\* A replaced socket delivers a session snapshot to the handler that was
\* registered on it.
ReplacedSessionStateReceived(sid, users) ==
  \E i \in 1..Len(replaced) :
    /\ replaced[i].connected /\ "session_state" \in replaced[i].smListening
    /\ Commit([onSessionState(St, sid, users) EXCEPT
                 !.received = <<[event |-> "session_state", sid |-> sid,
                                 users |-> users]>>], "sessionState")

\* A session event arrives on a socket that carries no handler for it: a
\* socket emits an event to the listeners registered on it and to no other.
SessionEventDropped(sid, users) ==
  /\ socket /\ sockConnected /\ "session_state" \notin smListening
  /\ Commit([St EXCEPT !.received = <<[event |-> "unhandled",
                                       sid |-> sid, users |-> users]>>],
            "sessionEventDropped")

\* setupWebSocketListeners(): each webSocketService.on(event, callback)
\* registers the callback on this.socket if there is one.
setupWebSocketListeners(s) ==
  IF s.socket THEN [s EXCEPT !.smListening = @ \cup SmEvents] ELSE s

\* ---------------------------------------------------- acknowledgments
Requeue(s, a) ==
  [s EXCEPT !.messageQueue =
     Append(@, [event |-> a.event, id |-> a.id, sid |-> a.sid, uid |-> a.uid,
                sends |-> a.sends, timestamp |-> a.timestamp,
                retries |-> a.retries + 1])]

\* Mutant: a rejection is swallowed and the promise resolves.
rejectEmit_Swallowed(s, a, how) ==
  LET t == [s EXCEPT !.acks = @ \ {a}]
  IN CASE a.origin = "direct" ->
            joinSettled(Settle(t, a.id, "resolved"), a.id, FALSE)
       [] a.origin = "sweep" -> Requeue(t, a)
       [] OTHER -> t

\* The promise of an emit rejects: the caller's catch runs.
rejectEmit(s, a, how) ==
  LET t == [s EXCEPT !.acks = @ \ {a}]
  IN CASE a.origin = "direct" ->
            joinSettled(Settle(t, a.id, how), a.id, FALSE)
       [] a.origin = "sweep" -> Requeue(t, a)
       [] OTHER -> t

resolveEmit(s, a) ==
  LET t == [s EXCEPT !.acks = @ \ {a}]
  IN IF a.origin = "direct"
     THEN joinSettled(
            Settle([t EXCEPT !.sessionId = IF a.event = "leave_session"
                                           THEN NoSession ELSE @],
                   a.id, "resolved"),
            a.id, TRUE)
     ELSE t

\* The server acknowledges an emit on the socket that sent it, while that
\* socket is open.
AckOk ==
  \E a \in acks :
    /\ a.sock # 0
    /\ Commit(resolveEmit(St, a), "ackOk")

AckError ==
  \E a \in acks :
    /\ a.sock # 0
    /\ Commit(rejectEmit(St, a, "error"), "ackError")

AckTimedOut ==
  \E a \in acks :
    /\ now - a.sentAt >= AckTimeout
    /\ Commit(rejectEmit(St, a, "timeout"), "ackTimeout")

\* ------------------------------------------------------- socket events
\* The connect event of this.socket: both handlers run, then the caller
\* suspended on the connect() promise goes on.
socketConnect(s) ==
  LET c == [s EXCEPT !.sockConnected = TRUE]
      t == onConnect(onConnectFirst(c))
  IN IF "connect" \notin s.svcListening THEN c
     ELSE IF t.hung THEN t ELSE runJobs(connectSettled(t, 0, TRUE))

SocketConnect ==
  /\ socket /\ ~sockConnected
  /\ MsgRoom(IF connectPromise = "pending" /\ Awaited(St) THEN 1 ELSE 0)
  /\ Commit(socketConnect(St), "evConnect")

\* A rejected connect() promise makes the suspended caller throw.
socketConnectError(s) ==
  connectSettled(onConnectError(onConnectErrorFirst(s), "connect failed"),
                 0, FALSE)

SocketConnectError ==
  /\ socket /\ ~sockConnected /\ "connect_error" \in svcListening
  /\ Commit(socketConnectError(St), "evConnectError")

\* ---------------------------------------- events of a replaced socket
\* The i-th replaced socket goes on with its connection and fires its events
\* to the handlers registered on it, which act on the service as those of
\* this.socket do: emit, processMessageQueue and the reconnect timers use
\* this.socket as it is when they run.
replacedConnect(s, i) ==
  LET c == [s EXCEPT !.replaced[i].connected = TRUE]
      t == onConnect(onConnectFirst(c))
  IN IF "connect" \notin s.replaced[i].svcListening THEN c
     ELSE IF t.hung THEN t ELSE runJobs(connectSettled(t, i, TRUE))

ReplacedSocketConnect ==
  \E i \in 1..Len(replaced) :
    /\ ~replaced[i].connected
    /\ MsgRoom(IF replaced[i].awaited THEN 1 ELSE 0)
    /\ Commit(replacedConnect(St, i), "evConnect")

replacedConnectError(s, i) ==
  connectSettled(onConnectError(onConnectErrorFirst(s), "connect failed"),
                 i, FALSE)

ReplacedSocketConnectError ==
  \E i \in 1..Len(replaced) :
    /\ ~replaced[i].connected
    /\ "connect_error" \in replaced[i].svcListening
    /\ Commit(replacedConnectError(St, i), "evConnectError")

SocketDisconnect(reason) ==
  /\ socket /\ sockConnected
  /\ \E j1 \in JittersIf(reason # "io server disconnect", 0),
        j2 \in JittersIf(reason # "io server disconnect", 1) :
       LET s == fireDisconnect([St EXCEPT !.sockConnected = FALSE],
                               svcListening, reason, j1, j2)
       IN TimerRoom(s) /\ Commit(s, "evDisconnect")

ReplacedSocketDisconnect(reason) ==
  \E i \in 1..Len(replaced) :
    /\ replaced[i].connected
    /\ \E j1 \in Jitters, j2 \in Jitters :
         LET s == fireDisconnect([St EXCEPT !.replaced[i].connected = FALSE],
                                 replaced[i].svcListening, reason, j1, j2)
         IN TimerRoom(s) /\ Commit(s, "evDisconnect")

SocketReconnect ==
  /\ socket /\ ~sockConnected /\ "reconnect" \in svcListening
  /\ Commit(onReconnect(St), "evReconnect")

\* error / reconnect_error / reconnect_failed only notify.  The payload of
\* the event is undefined, an object without a message, or an error with the
\* message 'socket error'.
\* The handler of 'error' (606-609) passes error.message || 'Unknown error',
\* the one of 'reconnect_error' (619-622) error.message, the one of
\* 'reconnect_failed' (624-627) its own text; error.message of undefined
\* throws before anything is notified.
socketError(s, ev, payload) ==
  IF ev = "reconnect_failed"
  THEN notifyConnectionStatus(s, "Reconnection failed")
  ELSE IF payload = "undefined" THEN s
  ELSE IF payload = "noMessage"
  THEN notifyConnectionStatus(s, IF ev = "error" THEN "Unknown error"
                                 ELSE "none")
  ELSE notifyConnectionStatus(s, payload)

SocketError(ev, payload) ==
  /\ socket /\ ev \in svcListening
  /\ Commit(socketError(St, ev, payload), "evError")

\* ------------------------------------------------------- window events
windowOnline(s, jitter) ==
  LET t == [s EXCEPT !.online = TRUE]
  IN IF ~t.isConnected /\ t.socket THEN attemptReconnection(t, jitter) ELSE t

WindowOnline ==
  /\ ~online
  /\ \E j \in IF socket /\ ~isConnected
                   /\ reconnectAttempts < maxReconnectAttempts
                THEN Jitters
                ELSE {0} :
       TimerRoom(windowOnline(St, j)) /\ Commit(windowOnline(St, j), "online")

WindowOffline ==
  /\ online
  /\ Commit(notifyConnectionStatus([St EXCEPT !.online = FALSE], "none"),
            "offline")

\* --------------------------------------------------------------- timers
reconnectTimerFired(s) ==
  IF s.socket /\ ~s.isConnected
  THEN [s EXCEPT !.connectCalls = @ + 1]
  ELSE s

TimerFire ==
  \E i \in 1..Len(timers) :
    /\ now >= timers[i].due
    /\ LET s == [St EXCEPT !.timers = RemoveAt(@, i)]
       IN IF timers[i].kind = "grace"
          THEN \E j \in JittersIf(TRUE, 0) :
                 Commit(attemptReconnection(s, j), "graceTimer")
          ELSE Commit(reconnectTimerFired(s), "reconnectTimer")

heartbeatTick(s) ==
  IF s.socket /\ s.isConnected
  THEN [s EXCEPT !.emitted = Append(@, Payload("ping", 0, NoSession,
                                               NoSession))]
  ELSE s

HeartbeatTick ==
  /\ heartbeat
  /\ Commit(heartbeatTick(St), "heartbeat")

\* The interval is set by the constructor and its handle is not kept.
QueueSweep ==
  /\ queueInterval
  /\ Commit(queueProcessorTick(St), "sweep")

Tick(d) == Commit([St EXCEPT !.now = @ + d], "advance")

\* The clock of the delivery specification and of the connection one.
Advance ==
  \E d \in TimeSteps : Ticks(now) < MaxAdvances /\ Tick(d)

AdvanceConn ==
  (now \div ConnStep) < MaxConnAdvances /\ Tick(ConnStep)

AdvanceRetry ==
  (now \div ConnStep) < MaxRetryAdvances /\ Tick(ConnStep)

\* Half a grace period: longer than the first backoff delay.
AdvanceGrace ==
  (now \div (GraceDelay \div 2)) < MaxGraceAdvances
    /\ Tick(GraceDelay \div 2)

\* ------------------------------------------------------------ Whiteboard
\* The synchronisation effect (lines 239-382) runs after a render in which
\* one of its dependencies changed: the previous handlers are removed and new
\* ones are registered that close over the isReceivingUpdate of that render;
\* webSocketService.on registers handleCanvasUpdate only if a socket exists.
syncEffect(s) ==
  [s EXCEPT !.mounted = TRUE, !.handlerFlag = s.isReceivingUpdate,
            !.listening = s.socket]

Mount ==
  /\ ~mounted /\ enableRealTimeSync
  /\ Commit(syncEffect(St), "mount")

Render ==
  /\ mounted /\ handlerFlag # isReceivingUpdate
  /\ Commit(syncEffect(St), "render")

\* Ids given by handleObjectAdded / handlePathCreated are fresh.
LocalId(n) == n

\* sendCanvasUpdate of the component, then webSocketService.sendCanvasUpdate.
sendCanvasUpdate(s, type, id) ==
  IF s.handlerFlag THEN s
  ELSE emit([s EXCEPT !.nextId = @ + 1,
                      !.sentUpdates = Append(@, [type |-> type, id |-> id])],
            Payload("canvas_update", s.nextId, NoSession, NoSession),
            "direct", 0, 0)

handleObjectAdded(s, i) ==
  IF s.handlerFlag THEN s
  ELSE sendCanvasUpdate(
         [s EXCEPT !.canvasObjects[i] = LocalId(s.nextId)],
         "object_added", LocalId(s.nextId))

handleObjectRemoved(s, id) ==
  IF s.handlerFlag THEN s
  ELSE IF id # NoId THEN sendCanvasUpdate(s, "object_removed", id)
  ELSE s

\* canvas.add / canvas.remove / canvas.clear change the scene graph and fire
\* object:added / object:removed before they return.
\* The handlers are those the synchronisation effect registered, if it ran.
canvasAdd(s, id) ==
  LET t == [s EXCEPT !.canvasObjects = Append(@, id)]
  IN IF s.mounted THEN handleObjectAdded(t, Len(t.canvasObjects)) ELSE t

canvasRemove(s, i) ==
  LET t == [s EXCEPT !.canvasObjects = RemoveAt(@, i)]
  IN IF s.mounted THEN handleObjectRemoved(t, s.canvasObjects[i]) ELSE t

RECURSIVE canvasClear(_)
canvasClear(s) ==
  IF s.canvasObjects = <<>> THEN s
  ELSE canvasClear(canvasRemove(s, 1))

\* FindObject falling back on the first object when none has the id.
FindObject_FirstIfMissing(objs, id) ==
  IF \E i \in 1..Len(objs) : objs[i] = id
  THEN CHOOSE i \in 1..Len(objs) :
         objs[i] = id /\ \A j \in 1..(i - 1) : objs[j] # id
  ELSE IF objs = <<>> THEN 0 ELSE 1

\* The index of the first object with this id, 0 if there is none.
FindObject(objs, id) ==
  IF \E i \in 1..Len(objs) : objs[i] = id
  THEN CHOOSE i \in 1..Len(objs) :
         objs[i] = id /\ \A j \in 1..(i - 1) : objs[j] # id
  ELSE 0

RECURSIVE canvasAddAll(_, _)
canvasAddAll(s, objs) ==
  IF objs = <<>> THEN s
  ELSE canvasAddAll(canvasAdd(s, Head(objs)), Tail(objs))

\* canvas.loadFromJSON(json, callback) populates the canvas from json: once
\* the objects of json.objects are built the canvas is cleared, they are
\* added and the callback runs.  load.objs are the ids of json.objects and
\* load.cb tells whose callback it is: the one of handleCanvasUpdate resets
\* isReceivingUpdate, the one of WhiteboardHistory.loadState only renders;
\* load.type is the type of the update the load applies.
loadDone(s, load) ==
  LET t == canvasAddAll(canvasClear(s), load.objs)
  IN IF load.cb = "update" THEN [t EXCEPT !.isReceivingUpdate = FALSE]
     ELSE t

\* The callback runs before the call returns (sync) or in a later task.
loadFromJSON(s, load, sync) ==
  IF sync THEN loadDone(s, load)
  ELSE [s EXCEPT !.pendingLoads = Append(@, load)]

\* The number of sendCanvasUpdate calls a completed load makes: one for each
\* removed object that has an id and one for each added object.
LoadEchoCount(s, objs) ==
  IF s.mounted /\ ~s.handlerFlag
  THEN Len(SelectSeq(s.canvasObjects, LAMBDA o : o # NoId)) + Len(objs)
  ELSE 0

\* update.data.object is the JSON of one object, which has no objects array;
\* update.data.path is wrapped into { objects: [path] }.
UpdateLoad(u) ==
  [objs |-> IF u.type = "draw" THEN <<u.id>> ELSE <<>>, cb |-> "update",
   type |-> u.type]

\* handleCanvasUpdate(update), lines 243-300.  hasData tells whether the
\* payload carries the field its type needs (object, objectId or path).
handleCanvasUpdate(s, u, sync) ==
  IF u.user = SelfUser THEN s
  ELSE LET t == [s EXCEPT !.isReceivingUpdate = TRUE]
           done == [t EXCEPT !.isReceivingUpdate = FALSE]
           i == FindObject(t.canvasObjects, u.id)
       IN CASE u.type \in {"object_added", "draw"} ->
                 IF u.hasData THEN loadFromJSON(t, UpdateLoad(u), sync) ELSE t
            [] u.type = "object_modified" -> done
            [] u.type = "object_removed" ->
                 IF u.hasData /\ i # 0
                 THEN [canvasRemove(t, i) EXCEPT !.isReceivingUpdate = FALSE]
                 ELSE done
            [] u.type = "clear" ->
                 [canvasClear(t) EXCEPT !.isReceivingUpdate = FALSE]
            [] OTHER -> done

Updates ==
  [type : UpdateTypes, id : RemoteIds, hasData : BOOLEAN,
   user : {SelfUser, OtherUser}]

\* The number of sendCanvasUpdate calls the application of u makes.
EchoCount(s, u, sync) ==
  IF s.handlerFlag \/ u.user = SelfUser THEN 0
  ELSE CASE u.type \in {"object_added", "draw"} ->
              IF u.hasData /\ sync THEN LoadEchoCount(s, UpdateLoad(u).objs)
              ELSE 0
         [] u.type = "object_removed" ->
              IF u.hasData /\ FindObject(s.canvasObjects, u.id) # 0
              THEN 1 ELSE 0
         [] u.type = "clear" ->
              Len(SelectSeq(s.canvasObjects, LAMBDA o : o # NoId))
         [] OTHER -> 0

\* Updates of another user that carry a drawn path.
DrawUpdates ==
  {u \in Updates : u.type = "draw" /\ u.hasData /\ u.user = OtherUser}

\* The socket delivers a canvas_update event to the registered handler.
CanvasUpdateReceived(u, sync) ==
  /\ socket /\ sockConnected /\ listening /\ mounted
  /\ MsgRoom(EchoCount(St, u, sync))
  /\ (u.type \in {"object_added", "draw"} /\ u.hasData /\ u.user # SelfUser
      /\ ~sync) => Len(pendingLoads) < MaxLoads
  /\ Commit([handleCanvasUpdate(St, u, sync) EXCEPT
               !.received = <<[event |-> "canvas_update", update |-> u,
                               sync |-> sync]>>], "canvasUpdate")

\* A replaced socket delivers a canvas_update event to the handleCanvasUpdate
\* that was registered on it: the effect's cleanup calls off() on this.socket,
\* which is another socket by then.
ReplacedCanvasUpdateReceived(u, sync) ==
  \E i \in 1..Len(replaced) :
    /\ replaced[i].connected /\ replaced[i].listening /\ mounted
    /\ MsgRoom(EchoCount(St, u, sync))
    /\ (u.type \in {"object_added", "draw"} /\ u.hasData /\ u.user # SelfUser
        /\ ~sync) => Len(pendingLoads) < MaxLoads
    /\ Commit([handleCanvasUpdate(St, u, sync) EXCEPT
                 !.received = <<[event |-> "canvas_update", update |-> u,
                                 sync |-> sync]>>], "canvasUpdate")

\* Payloads that are not a CanvasUpdate: no payload at all (null or
\* undefined), or an update of some type without its data field.
MalformedUpdates ==
  {[shape |-> "null", type |-> "none"]}
    \cup {[shape |-> "noData", type |-> t] : t \in UpdateTypes}

\* handleCanvasUpdate throws to its caller: line 244 reads update.user_id
\* outside the try block.
throwsToCaller(m) == m.shape = "null"

\* handleCanvasUpdate(update) for such a payload.  Without a data field the
\* user id differs from userId, isReceivingUpdate is set and the cases that
\* read update.data throw inside the try block, whose catch resets the flag;
\* clear does not read update.data.
handleMalformedUpdate(s, m) ==
  IF throwsToCaller(m) THEN s
  ELSE LET t == [s EXCEPT !.isReceivingUpdate = TRUE]
       IN IF m.type = "clear"
          THEN [canvasClear(t) EXCEPT !.isReceivingUpdate = FALSE]
          ELSE [t EXCEPT !.isReceivingUpdate = FALSE]

MalformedUpdateReceived(m) ==
  /\ socket /\ sockConnected /\ listening /\ mounted
  /\ MsgRoom(IF m.type = "clear" /\ ~handlerFlag
             THEN Len(SelectSeq(canvasObjects, LAMBDA o : o # NoId)) ELSE 0)
  /\ Commit([handleMalformedUpdate(St, m) EXCEPT
               !.received = <<[event |-> "malformed_update", update |-> m,
                               threw |-> throwsToCaller(m)]>>],
            "malformedUpdate")

LoadComplete ==
  \E i \in 1..Len(pendingLoads) :
    /\ MsgRoom(LoadEchoCount(St, pendingLoads[i].objs))
    /\ Commit(loadDone([St EXCEPT !.pendingLoads = RemoveAt(@, i)],
                       pendingLoads[i]), "loadComplete")

\* ------------------------------------------------------ WhiteboardHistory
canUndo(s) == s.currentIndex > 0
canRedo(s) == s.currentIndex < Len(s.history) - 1

\* Mutant: the undone states are kept.
slice_KeepsAll(s) == s.history

\* this.history.slice(0, this.currentIndex + 1)
slice(s) == SubSeq(s.history, 1, s.currentIndex + 1)

\* Mutant: the history grows without evicting its oldest entry.
saveState_NoEviction(s) ==
  [s EXCEPT !.history = Append(slice(s), Serialize(s.canvasObjects)),
            !.currentIndex = @ + 1,
            !.historyLog = Append(@, [call |-> "saveState",
                                      result |-> canRedo(s)])]

\* saveState(): the entries after the current index are dropped, the
\* serialized canvas is pushed and the oldest entry is shifted out when the
\* history is longer than maxHistorySize.  The log tells whether there were
\* undone states.
saveState(s) ==
  LET pushed == Append(slice(s), Serialize(s.canvasObjects))
      t == [s EXCEPT !.historyLog = Append(@, [call |-> "saveState",
                                               result |-> canRedo(s)])]
  IN IF Len(pushed) > maxHistorySize
     THEN [t EXCEPT !.history = Tail(pushed)]
     ELSE [t EXCEPT !.history = pushed, !.currentIndex = @ + 1]

\* loadState(state): canvas.loadFromJSON(state, () => canvas.renderAll())
loadState(s, state, sync) ==
  loadFromJSON(s, [objs |-> state, cb |-> "history", type |-> "history"],
               sync)

\* undo() / redo(): the log holds the value returned.
undo(s, sync) ==
  IF ~canUndo(s)
  THEN [s EXCEPT !.historyLog = Append(@, [call |-> "undo",
                                           result |-> FALSE])]
  ELSE LET t == [s EXCEPT !.currentIndex = @ - 1,
                          !.historyLog = Append(@, [call |-> "undo",
                                                    result |-> TRUE])]
       IN loadState(t, t.history[t.currentIndex + 1], sync)

\* Mutant: redo loads the entry it started from.
redo_LoadsCurrent(s, sync) ==
  IF ~canRedo(s)
  THEN [s EXCEPT !.historyLog = Append(@, [call |-> "redo",
                                           result |-> FALSE])]
  ELSE LET t == [s EXCEPT !.currentIndex = @ + 1,
                          !.historyLog = Append(@, [call |-> "redo",
                                                    result |-> TRUE])]
       IN loadState(t, t.history[t.currentIndex], sync)

redo(s, sync) ==
  IF ~canRedo(s)
  THEN [s EXCEPT !.historyLog = Append(@, [call |-> "redo",
                                           result |-> FALSE])]
  ELSE LET t == [s EXCEPT !.currentIndex = @ + 1,
                          !.historyLog = Append(@, [call |-> "redo",
                                                    result |-> TRUE])]
       IN loadState(t, t.history[t.currentIndex + 1], sync)

\* clear()
clear(s) == saveState([s EXCEPT !.history = <<>>, !.currentIndex = -1])

\* handleAddText(): canvas.add(text), then saveState().
handleAddText(s) == saveState(canvasAdd(s, NoId))

SaveState == Commit(saveState(St), "saveState")

HistoryClear == Commit(clear(St), "historyClear")

\* handleUndo / handleRedo.  The user keeps at most MaxRedoDepth undone
\* states.
Undo(sync) ==
  /\ canUndo(St) => Len(history) - currentIndex <= MaxRedoDepth
  /\ (canUndo(St) /\ ~sync) => Len(pendingLoads) < MaxLoads
  /\ (canUndo(St) /\ sync) =>
       MsgRoom(LoadEchoCount(St, history[currentIndex]))
  /\ Commit(undo(St, sync), "undo")

Redo(sync) ==
  /\ (canRedo(St) /\ ~sync) => Len(pendingLoads) < MaxLoads
  /\ (canRedo(St) /\ sync) =>
       MsgRoom(LoadEchoCount(St, history[currentIndex + 2]))
  /\ Commit(redo(St, sync), "redo")

AddText ==
  /\ Len(canvasObjects) < MaxShapes
  /\ MsgRoom(IF mounted /\ ~handlerFlag THEN 1 ELSE 0)
  /\ Commit(handleAddText(St), "addText")

\* handleClear(): the canvas is cleared, the state is saved and a clear
\* update is sent unless the isReceivingUpdate of the render that made this
\* callback was set; the callback is renewed by the render that renews the
\* handlers of the synchronisation effect.
handleClear(s) ==
  LET t == saveState(canvasClear(s))
  IN IF s.enableRealTimeSync /\ ~s.handlerFlag
     THEN emit([t EXCEPT !.nextId = @ + 1,
                         !.sentUpdates = Append(@, [type |-> "clear",
                                                    id |-> NoId])],
               Payload("canvas_update", t.nextId, NoSession, NoSession),
               "direct", 0, 0)
     ELSE t

\* The number of sendCanvasUpdate calls a local clear makes.
ClearEchoCount(s) ==
  (IF s.mounted /\ ~s.handlerFlag
   THEN Len(SelectSeq(s.canvasObjects, LAMBDA o : o # NoId)) ELSE 0)
  + (IF s.enableRealTimeSync /\ ~s.handlerFlag THEN 1 ELSE 0)

HandleClear ==
  /\ Len(history) < MaxSnapshots
  /\ MsgRoom(ClearEchoCount(St))
  /\ Commit([handleClear(St) EXCEPT !.received = <<[event |-> "clear"]>>],
            "handleClear")

\* Undo history of a Whiteboard without real-time synchronisation, whose
\* canvas completes loadFromJSON before the call returns.
NextHistory ==
  \/ SaveState
  \/ AddText
  \/ Undo(TRUE)
  \/ Redo(TRUE)
  \/ HistoryClear

SpecHistory == Init /\ [][NextHistory]_vars

\* Message queue and delivery: the API calls, acknowledgments, drains and the
\* clock, with the socket events that switch between the two branches of emit.
NextQueue ==
  \/ ConnectFresh
  \/ Send("canvas_update")
  \/ AckOk
  \/ AckError
  \/ AckTimedOut
  \/ SocketConnect
  \/ SocketDisconnect("transport close")
  \/ SocketReconnect
  \/ QueueSweep
  \/ Advance

\* The delivery code never reads navigator.onLine; with the browser offline
\* attemptReconnection returns early, which keeps the reconnection counters
\* and timers out of the delivery state space.
InitQueue == Init /\ ~online

SpecQueue == InitQueue /\ [][NextQueue]_vars

\* Connection lifecycle: connect / disconnect, socket and window events,
\* reconnection timers, heartbeat and status callbacks.
NextConn ==
  \/ ConnectFresh
  \/ Disconnect /\ OneBatch
  \/ Cleanup /\ OneBatch
  \/ OnConnectionStatusChange
  \/ RemoveConnectionStatusCallback
  \/ SocketConnect
  \/ SocketConnectError
  \/ \E r \in Reasons : SocketDisconnect(r) /\ OneBatch
  \/ SocketReconnect
  \/ WindowOnline /\ OneBatch
  \/ WindowOffline
  \/ TimerFire
  \/ HeartbeatTick
  \/ AdvanceConn

SpecConn == Init /\ [][NextConn]_vars

\* Reconnection: a socket that loses its connection while the network comes
\* and goes, long enough for every backoff delay to elapse.
NextRetry ==
  \/ ConnectFresh
  \/ SocketConnect
  \/ \E r \in Reasons : SocketDisconnect(r) /\ OneBatch
  \/ WindowOnline /\ OneBatch
  \/ WindowOffline
  \/ TimerFire
  \/ AdvanceRetry

SpecRetry == Init /\ [][NextRetry]_vars

\* Grace period: the server closes the connection while the network comes and
\* goes and reconnect timers of earlier disconnections are pending; the clock
\* moves in steps shorter than the grace period.
NextGrace ==
  \/ ConnectFresh
  \/ SocketConnect
  \/ \E r \in Reasons : SocketDisconnect(r)
  \/ WindowOnline
  \/ WindowOffline
  \/ TimerFire
  \/ AdvanceGrace

SpecGrace == Init /\ [][NextGrace]_vars

\* Emitting calls: the six calls of the service that emit, made while the
\* socket is connected or not, and the continuation of leaveSession.
NextEmit ==
  \/ ConnectFresh
  \/ Disconnect
  \/ \E ev \in SendEvents : Send(ev)
  \/ \E sid \in Sessions, uid \in Users : JoinSession(sid, uid)
  \/ LeaveSession
  \/ RunMicrotask
  \/ AckOk
  \/ SocketConnect
  \/ SocketDisconnect("transport close")

\* The service was constructed at some time of the day and is offline.
InitSession == InitAt(SessionStart) /\ ~online

SpecEmit == InitSession /\ [][NextEmit]_vars

\* Session membership: the six emitting calls of the service and
\* SessionManager.joinSession, with the events that settle their promises.
NextSession ==
  \/ Disconnect
  \/ \E ev \in SendEvents : Send(ev)
  \/ \E sid \in Sessions, uid \in Users : JoinSession(sid, uid)
  \/ LeaveSession
  \/ \E sid \in Sessions, uid \in Users : SmJoinSession(sid, uid)
  \/ AckOk
  \/ AckError
  \/ SocketConnect
  \/ SocketConnectError
  \/ SocketDisconnect("transport close")
  \/ RunMicrotask
  \/ ReplacedSocketConnect
  \/ ReplacedSocketConnectError

SpecSession == InitSession /\ [][NextSession]_vars

\* Participant roster: SessionManager joins and leaves, and the session
\* events pushed by the server.
NextRoster ==
  \/ \E sid \in Sessions, uid \in Users : SmJoinSession(sid, uid)
  \/ SmLeaveSession
  \/ \E sid \in Sessions, users \in SUBSET Members :
       SessionStateReceived(sid, users)
  \/ \E sid \in Sessions, uid \in Members : SessionJoinReceived(sid, uid)
  \/ \E sid \in Sessions, uid \in Members : SessionLeaveReceived(sid, uid)
  \/ AckOk
  \/ AckError
  \/ SocketConnect
  \/ SocketDisconnect("transport close")
  \/ RunMicrotask
  \/ \E sid \in Sessions, uid \in Users : CreateSession(sid, uid)
  \/ EndSession
  \/ SmCleanup
  \/ Off("session_state")
  \/ ReplacedSocketConnect
  \/ \E sid \in Sessions, users \in SUBSET Members :
       ReplacedSessionStateReceived(sid, users)

\* whiteboardInteraction.ts builds its SessionManager when the module is first
\* evaluated.  The application has called webSocketService.connect() before
\* that, so that the handlers of setupWebSocketListeners are registered on
\* the socket; the browser is offline as in InitQueue.
InitRoster ==
  VarsAre(setupWebSocketListeners(connect(Pristine(SessionStart, FALSE))))

SpecRoster == InitRoster /\ [][NextRoster]_vars

\* Canvas update protocol: remote updates applied by a mounted Whiteboard on
\* a connected socket.
NextBoard ==
  \/ ConnectFresh
  \/ Disconnect
  \/ SocketConnect
  \/ SocketDisconnect("transport close")
  \/ Mount
  \/ Render
  \/ \E u \in Updates, sync \in BOOLEAN : CanvasUpdateReceived(u, sync)
  \/ LoadComplete
  \/ AckOk

SpecBoard == InitQueue /\ [][NextBoard]_vars

\* Application of remote updates: a Whiteboard that mounts on a socket and
\* handles the canvas updates it delivers.
NextApply ==
  \/ ConnectFresh
  \/ SocketConnect
  \/ Mount
  \/ Render
  \/ \E u \in Updates, sync \in BOOLEAN : CanvasUpdateReceived(u, sync)
  \/ LoadComplete

SpecApply == InitQueue /\ [][NextApply]_vars

\* Local editing: a Whiteboard with or without real-time synchronisation
\* whose user adds text and clears the canvas while remote updates arrive.
NextEdit ==
  \/ ConnectFresh
  \/ SocketConnect
  \/ Mount
  \/ Render
  \/ \E u \in DrawUpdates, sync \in BOOLEAN : CanvasUpdateReceived(u, sync)
  \/ LoadComplete
  \/ AddText
  \/ HandleClear

InitEdit ==
  \E e \in BOOLEAN :
    VarsAre([Pristine(0, FALSE) EXCEPT !.enableRealTimeSync = e])

SpecEdit == InitEdit /\ [][NextEdit]_vars

\* Event subscription: the SessionManager is built before or after the
\* application's first connect(), and the server pushes session snapshots.
NextListen ==
  \/ Connect
  \/ \E sid \in Sessions, uid \in Users : SmJoinSession(sid, uid)
  \/ AckOk
  \/ SocketConnect
  \/ SocketDisconnect("transport close")
  \/ \E sid \in Sessions, users \in SUBSET Members :
       SessionStateReceived(sid, users)
  \/ \E sid \in Sessions, users \in SUBSET Members :
       SessionEventDropped(sid, users)
  \/ ReplacedSocketConnect
  \/ \E sid \in Sessions, users \in SUBSET Members :
       ReplacedSessionStateReceived(sid, users)

InitListen ==
  \/ VarsAre(setupWebSocketListeners(Pristine(SessionStart, FALSE)))
  \/ VarsAre(setupWebSocketListeners(connect(Pristine(SessionStart, FALSE))))

SpecListen == InitListen /\ [][NextListen]_vars

\* Robustness: a mounted Whiteboard that is sent payloads that are not canvas
\* updates between the drawn paths of another user.
NextRobust ==
  \/ ConnectFresh
  \/ SocketConnect
  \/ Mount
  \/ Render
  \/ \E ev \in {"canvas_update", "connect", "disconnect"} : Off(ev)
  \/ SocketDisconnect("transport close")
  \/ \E u \in DrawUpdates, sync \in BOOLEAN : CanvasUpdateReceived(u, sync)
  \/ LoadComplete
  \/ \E m \in MalformedUpdates : MalformedUpdateReceived(m)

SpecRobust == InitQueue /\ [][NextRobust]_vars

\* Replaced sockets: an application that calls connect() again before or
\* after the socket it holds has connected, and later disconnect(), while the
\* socket left behind goes on with its connection.
NextReplace ==
  \/ Connect
  \/ Disconnect
  \/ OnConnectionStatusChange
  \/ Send("canvas_update")
  \/ AckOk
  \/ SocketConnect
  \/ SocketDisconnect("transport close")
  \/ ReplacedSocketConnect
  \/ ReplacedSocketConnectError
  \/ ReplacedSocketDisconnect("transport close")
  \/ \E ev \in {"error", "reconnect_error", "reconnect_failed"},
        p \in {"undefined", "noMessage", "socket error"} :
       SocketError(ev, p)
  \/ Mount
  \/ \E u \in DrawUpdates : ReplacedCanvasUpdateReceived(u, TRUE)

SpecReplace == InitQueue /\ [][NextReplace]_vars

\* ======================================================== verification

\* C1 (as claimed): no step that applies a canvas_update received from
\* another user, or completes the load such an update started, calls
\* webSocketService.sendCanvasUpdate; in particular none sends a clear.
ApplyingRemoteUpdate ==
  \/ \E u \in Updates, sync \in BOOLEAN :
       u.user = OtherUser /\ CanvasUpdateReceived(u, sync)
  \/ LoadComplete

NoEchoOfRemoteUpdates ==
  [][ApplyingRemoteUpdate =>
       /\ sentUpdates' = <<>>
       /\ \A i \in 1..Len(sentUpdates') : sentUpdates'[i].type # "clear"]_vars

\* C2: a sendCanvasUpdate, sendAudioChunk, sendChatMessage, sendCursorUpdate,
\* joinSession or leaveSession that emits while the service is not connected
\* makes no socket.emit call, leaves the queued messages in place and appends
\* one entry with retries = 0 and timestamp = now behind them, and its
\* promise is resolved when the call returns.
EmittingCall ==
  \/ \E ev \in SendEvents : Send(ev)
  \/ \E sid \in Sessions, uid \in Users : JoinSession(sid, uid)
  \/ (LeaveSession /\ sessionId # NoSession)

QueuedWhenDisconnected ==
  [][(EmittingCall /\ ~(socket /\ isConnected)) =>
       /\ emitted' = <<>>
       /\ acks' = acks
       /\ Len(messageQueue') = Len(messageQueue) + 1
       /\ SubSeq(messageQueue', 1, Len(messageQueue)) = messageQueue
       /\ messageQueue'[Len(messageQueue')].id = nextId
       /\ messageQueue'[Len(messageQueue')].retries = 0
       /\ messageQueue'[Len(messageQueue')].timestamp = now
       /\ settled' = <<[id |-> nextId, how |-> "resolved"]>>]_vars

\* A join and, later, a leave were queued behind each other while no socket
\* was connected.
QueuedWitness ==
  /\ ~(socket /\ isConnected)
  /\ Len(messageQueue) = 2
  /\ messageQueue[1].event = "join_session"
  /\ messageQueue[1].timestamp = now
  /\ messageQueue[2].event = "leave_session"
  /\ messageQueue[2].timestamp = now /\ now > 0
  /\ messageQueue[2].retries = 0
  /\ messageQueue[1].sends = 0 /\ messageQueue[2].sends = 0
  /\ acks = {}
  /\ settled = <<[id |-> messageQueue[2].id, how |-> "resolved"]>>

\* A socket of the service fires its connect event.
ConnectEvent ==
  \/ sockConnected' /\ ~sockConnected /\ SocketConnect
  \/ replaced' # replaced /\ ReplacedSocketConnect

\* C3 (as claimed): when a connect event fires, every message held in the
\* queue is passed to socket.emit during that event and the queue is empty
\* afterwards.
ReplayOnReconnection ==
  [][ConnectEvent =>
       /\ messageQueue' = <<>>
       /\ \A i \in 1..Len(messageQueue) :
            /\ \E a \in acks' : /\ a.id = messageQueue[i].id
                                 /\ a.sends = messageQueue[i].sends + 1
                                 /\ a.sentAt = now
            /\ \E j \in 1..Len(emitted') :
                 /\ emitted'[j].id = messageQueue[i].id
                 /\ emitted'[j].event = messageQueue[i].event]_vars

\* C4: an emit issued while connected goes to the socket at once and its
\* promise stays pending; the promise resolves on an acknowledgment without
\* error, rejects with the server's error on an error acknowledgment, and
\* rejects with a timeout only once 10 s have passed without acknowledgment.
AckSettlesEmit ==
  [][/\ (socket /\ isConnected /\ nextId' = nextId + 1
         /\ Send("canvas_update")) =>
          /\ Len(emitted') = 1 /\ emitted'[1].id = nextId
          /\ settled' = <<>>
          /\ \E a \in acks' : a.id = nextId /\ a.origin = "direct"
          /\ messageQueue' = messageQueue
     /\ \A a \in acks \ acks' :
          a.origin = "direct" =>
            /\ AckOk => settled' = <<[id |-> a.id, how |-> "resolved"]>>
            /\ AckError => settled' = <<[id |-> a.id, how |-> "error"]>>
            /\ AckTimedOut => /\ settled' = <<[id |-> a.id, how |-> "timeout"]>>
                              /\ now - a.sentAt >= AckTimeout
     /\ \A i \in 1..Len(settled') :
          (\E a \in acks : a.id = settled'[i].id) =>
             (AckOk \/ AckError \/ AckTimedOut)]_vars

\* An emit sent while connected was rejected by its acknowledgment timeout.
AckWitness ==
  /\ settled = <<[id |-> 1, how |-> "timeout"]>>
  /\ now >= AckTimeout
  /\ acks = {} /\ messageQueue = <<>>

\* C5 (as claimed): a queued message older than 5 minutes is never passed to
\* socket.emit by any later step.
ExpiredNeverEmitted ==
  [][\A i \in 1..Len(messageQueue) :
       now - messageQueue[i].timestamp > MaxAge =>
         \A j \in 1..Len(emitted') :
           emitted'[j].id # messageQueue[i].id]_vars

\* C6 (as claimed): no queued message is passed to socket.emit more than
\* three times.
RetryCap ==
  \A a \in acks : a.sends <= MaxRetries

\* C7: reconnectAttempts never exceeds the cap, and an attemptReconnection
\* run at the cap adds no reconnect timer, calls neither socket.connect nor
\* closes the socket, and hands 'Max reconnection attempts reached' to the
\* status callbacks.
AttemptAtCap(rsn) ==
  \/ SocketDisconnect(rsn)
  \/ (WindowOnline /\ ~isConnected /\ socket)
  \/ (TimerFire /\ \E i \in 1..Len(timers) :
                     /\ timers[i].kind = "grace"
                     /\ timers' = RemoveAt(timers, i))

ReconnectCap ==
  [][/\ reconnectAttempts' <= maxReconnectAttempts
     /\ (reconnectAttempts = maxReconnectAttempts
         /\ AttemptAtCap("transport close")) =>
          /\ reconnectAttempts' = maxReconnectAttempts
          /\ Len(timers') <= Len(timers)
          /\ \A i \in 1..Len(timers') :
               \E j \in 1..Len(timers) : timers'[i] = timers[j]
          /\ connectCalls' = 0
          /\ socket' = socket
          /\ statusCbs > 0 =>
               \E i \in 1..Len(notified') :
                 /\ notified'[i].lastError = "Max reconnection attempts reached"
                 /\ notified'[i].calls = statusCbs]_vars

\* attemptReconnection ran at the cap and reported the terminal status.
ReconnectCapWitness ==
  /\ reconnectAttempts = maxReconnectAttempts
  /\ socket
  /\ \E i \in 1..Len(notified) :
       notified[i].lastError = "Max reconnection attempts reached"

\* C8: the delay of the n-th reconnection attempt is 1000 * 2^(n-1) ms plus
\* the jitter, and never above 30000 ms.
ExpectedBase == <<1000, 2000, 4000, 8000, 16000>>

BackoffBounds ==
  \A i \in 1..Len(timers) :
    timers[i].kind = "reconnect" =>
      /\ timers[i].attempt \in 1..maxReconnectAttempts
      /\ timers[i].jitter \in 0..(JitterRange - 1)
      /\ timers[i].delay - timers[i].jitter = ExpectedBase[timers[i].attempt]
      /\ timers[i].delay <= MaxBackoff

\* The fifth attempt has been scheduled with the largest jitter.
BackoffWitness ==
  \E i \in 1..Len(timers) :
    /\ timers[i].kind = "reconnect"
    /\ timers[i].attempt = maxReconnectAttempts
    /\ timers[i].delay = 16999

\* C9 (as claimed): a connect event resolves the pending connect() promise of
\* its socket, sets isConnected, resets reconnectAttempts, starts the
\* heartbeat and hands every registered status callback a snapshot with
\* isConnected = true, reconnectAttempts = 0 and, the browser being online,
\* networkStatus online.
ConnectEffects ==
  [][ConnectEvent =>
       /\ connectPromise = "pending" /\ sockConnected' /\ ~sockConnected
            => connectPromise' = "resolved"
       /\ \A i \in 1..Len(replaced) :
            (replaced[i].promise = "pending" /\ replaced'[i].connected
             /\ ~replaced[i].connected) => replaced'[i].promise = "resolved"
       /\ isConnected'
       /\ reconnectAttempts' = 0
       /\ heartbeat'
       /\ statusCbs > 0 =>
            \E i \in 1..Len(notified') :
              /\ notified'[i].isConnected
              /\ notified'[i].reconnectAttempts = 0
              /\ notified'[i].calls = statusCbs
              /\ online => notified'[i].networkStatus = "online"]_vars

\* C10 (as claimed): a joinSession issued while connected hands the socket a
\* join_session message with the session and user ids and leaves its promise
\* pending; the session id of the service changes to a session only in the
\* step that acknowledges that session's join_session without error, and the
\* SessionManager's current session changes to it only in such a step, with
\* the joining user as its only participant.
JoinAcknowledged(sid) ==
  /\ AckOk
  /\ \E a \in acks \ acks' :
       a.event = "join_session" /\ a.sid = sid /\ a.origin = "direct"

SessionSetOnJoinAck ==
  [][/\ \A sid \in Sessions, uid \in Users :
          (JoinSession(sid, uid) /\ socket /\ isConnected) =>
            /\ emitted' = <<Payload("join_session", nextId, sid, uid)>>
            /\ settled' = <<>>
            /\ \E a \in acks' : a.id = nextId /\ a.origin = "direct"
     /\ \A sid \in Sessions :
          (socket /\ isConnected /\ sessionId' = sid /\ sessionId # sid) =>
            JoinAcknowledged(sid)
     /\ \A sid \in Sessions :
          (currentSession'.id = sid /\ currentSession.id # sid) =>
            /\ JoinAcknowledged(sid)
            /\ currentSession'.participants = <<currentSession'.userId>>
            /\ currentSession'.userId \in participants']_vars

\* C11: leaveSession sends leave_session for the current session id and then
\* clears the local session state: every leave_session a call creates names
\* the session id the service held, and once a leaveSession call of the
\* SessionManager has run to its end and dropped the current session no
\* participant is left and the service's session id is null.
LeaveClearsSession ==
  [][/\ \A i \in 1..Len(emitted') :
          (emitted'[i].event = "leave_session" /\ emitted'[i].id >= nextId)
            => (sessionId # NoSession /\ emitted'[i].sid = sessionId)
     /\ \A i \in 1..Len(messageQueue') :
          (messageQueue'[i].event = "leave_session"
           /\ messageQueue'[i].id >= nextId)
            => (sessionId # NoSession /\ messageQueue'[i].sid = sessionId)
     /\ (currentSession # NullSession /\ currentSession' = NullSession
         /\ Len(smCalls') < Len(smCalls))
          => (participants' = {} /\ sessionId' = NoSession)]_vars

\* C12: after a session_state for the current session has been handled the
\* participants are exactly the snapshot's active_users; a snapshot for
\* another session id leaves the participants as they were.
SnapshotReconciles ==
  [][\A sid \in Sessions, users \in SUBSET Members :
       received' = <<[event |-> "session_state", sid |-> sid,
                      users |-> users]>>
         => IF currentSession # NullSession /\ currentSession.id = sid
            THEN participants' = users
            ELSE participants' = participants]_vars

\* A snapshot that lists only the other user has removed the joined user and
\* added the listed one.
SnapshotWitness ==
  /\ received = <<[event |-> "session_state", sid |-> "s1",
                   users |-> {OtherUser}]>>
  /\ currentSession.id = "s1" /\ currentSession.userId = SelfUser
  /\ participants = {OtherUser}

\* C13: joining another session leaves the previous one: when the service's
\* session id goes from one session to another a leave_session for the
\* previous session is sent or queued, and when the SessionManager's current
\* session changes no participant of the previous session remains.
JoinLeavesPrevious ==
  [][/\ (sessionId # NoSession /\ sessionId' # NoSession
          /\ sessionId' # sessionId)
          => \/ \E i \in 1..Len(emitted') :
                  /\ emitted'[i].event = "leave_session"
                  /\ emitted'[i].sid = sessionId
             \/ \E i \in 1..Len(messageQueue') :
                  /\ messageQueue'[i].event = "leave_session"
                  /\ messageQueue'[i].sid = sessionId
     /\ (currentSession # NullSession /\ currentSession' # NullSession
          /\ currentSession'.id # currentSession.id)
          => participants' \subseteq {currentSession'.userId}]_vars

\* C14: the history holds between 1 and maxHistorySize entries and the
\* current index points into it; a saveState on a full history whose current
\* entry is the last one evicts the oldest entry.
HistoryBound ==
  /\ Len(history) >= 1 /\ Len(history) <= maxHistorySize
  /\ currentIndex >= 0 /\ currentIndex <= Len(history) - 1
  /\ (Len(history) = maxHistorySize /\ currentIndex = maxHistorySize - 1)
       => LET t == saveState(St)
          IN /\ t.history = Append(Tail(history), Serialize(canvasObjects))
             /\ t.currentIndex = maxHistorySize - 1

\* The history is full after a save that evicted the snapshot of the empty
\* canvas the constructor took.
HistoryFullWitness ==
  /\ Len(history) = maxHistorySize /\ currentIndex = maxHistorySize - 1
  /\ history[1] # Serialize(<<>>)
  /\ historyLog = <<[call |-> "saveState", result |-> FALSE]>>

\* C15: whenever canUndo() holds, undo() and then redo() both return true,
\* leave the current index and the history as they were, and the state redo
\* loads is the one that was current before the undo.
UndoRedoRoundTrip ==
  canUndo(St) =>
    LET u == undo(St, TRUE)
        r == redo(u, TRUE)
        v == redo(undo(St, FALSE), FALSE)
    IN /\ u.historyLog = <<[call |-> "undo", result |-> TRUE]>>
       /\ r.historyLog = <<[call |-> "undo", result |-> TRUE],
                           [call |-> "redo", result |-> TRUE]>>
       /\ r.currentIndex = currentIndex /\ r.history = history
       /\ r.canvasObjects = history[currentIndex + 1]
       /\ v.currentIndex = currentIndex /\ v.history = history
       /\ v.pendingLoads[Len(v.pendingLoads)] =
            [objs |-> history[currentIndex + 1], cb |-> "history",
             type |-> "history"]

\* A redo that followed an undo has put back a state that differs from the
\* one before it.
UndoRedoWitness ==
  /\ historyLog = <<[call |-> "redo", result |-> TRUE]>>
  /\ canUndo(St)
  /\ canvasObjects = history[currentIndex + 1]
  /\ history[currentIndex + 1] # history[currentIndex]

\* C16: a saveState made while undone states exist drops every entry after
\* the current index: afterwards canRedo() is false and the history is the
\* entries up to the previous index followed by the new state.
LinearHistory ==
  [][(canRedo(St)
      /\ historyLog' = <<[call |-> "saveState", result |-> TRUE]>>)
       => /\ currentIndex' = Len(history') - 1
          /\ history' = Append(SubSeq(history, 1, currentIndex + 1),
                               Serialize(canvasObjects'))]_vars

\* A state was saved over undone ones.
LinearHistoryWitness ==
  /\ historyLog = <<[call |-> "saveState", result |-> TRUE]>>
  /\ ~canRedo(St)
  /\ Len(history) >= 2
  /\ history[Len(history)] = Serialize(canvasObjects)

\* C17: a remote object_removed or object_modified whose id no object of the
\* canvas has is applied to the end without changing the scene graph and
\* without sending anything.
MissingObjectIgnored ==
  [][(/\ received' # <<>>
      /\ received'[1].event = "canvas_update"
      /\ received'[1].update.type \in {"object_removed", "object_modified"}
      /\ received'[1].update.user # SelfUser
      /\ \A i \in 1..Len(canvasObjects) :
            canvasObjects[i] # received'[1].update.id)
       => /\ canvasObjects' = canvasObjects
          /\ sentUpdates' = <<>>
          /\ isReceivingUpdate' = FALSE]_vars

\* An object_removed naming an id of no object was applied to a canvas that
\* holds an object.
MissingObjectWitness ==
  /\ received # <<>>
  /\ received[1].event = "canvas_update"
  /\ received[1].update.type = "object_removed"
  /\ received[1].update.hasData /\ received[1].update.user = OtherUser
  /\ \A i \in 1..Len(canvasObjects) :
        canvasObjects[i] # received[1].update.id
  /\ canvasObjects # <<>>
  /\ ~isReceivingUpdate

\* C18: a local clear saves one history snapshot and sends one canvas_update
\* of type clear when real-time sync is enabled and no remote update is
\* being applied, and none otherwise.
ClearBroadcast ==
  [][received' = <<[event |-> "clear"]>>
       => LET clears == SelectSeq(sentUpdates', LAMBDA x : x.type = "clear")
          IN /\ Len(historyLog') = 1 /\ historyLog'[1].call = "saveState"
             /\ canvasObjects' = <<>>
             /\ Len(clears) = IF enableRealTimeSync /\ ~isReceivingUpdate
                              THEN 1 ELSE 0]_vars

\* C19: applying a remote object_added adds that one object: once its load
\* has completed the canvas has one more object and the objects it had are
\* still there.
ObjectAddedAddsOne ==
  [][/\ (/\ received' # <<>>
         /\ received'[1].event = "canvas_update"
         /\ received'[1].sync
         /\ received'[1].update.type = "object_added"
         /\ received'[1].update.hasData
         /\ received'[1].update.user # SelfUser)
            => /\ Len(canvasObjects') = Len(canvasObjects) + 1
               /\ SubSeq(canvasObjects', 1, Len(canvasObjects))
                    = canvasObjects
     /\ (\E i \in 1..Len(pendingLoads) :
            /\ pendingLoads[i].type = "object_added"
            /\ pendingLoads' = RemoveAt(pendingLoads, i))
          => /\ Len(canvasObjects') = Len(canvasObjects) + 1
             /\ SubSeq(canvasObjects', 1, Len(canvasObjects))
                  = canvasObjects]_vars

\* C20: no canvas update is handed to the socket more than once.
SentAtMostOnce ==
  \A a \in acks : a.event = "canvas_update" => a.sends <= 1

\* C21: when the network comes back online while the service holds a socket
\* and is disconnected, a reconnection attempt follows: after the step a
\* reconnect timer, whose callback calls socket.connect(), is pending, also
\* when reconnectAttempts had reached maxReconnectAttempts.
OnlineTriggersReconnect ==
  [][(~online /\ online' /\ socket /\ ~isConnected)
       => \E i \in 1..Len(timers') : timers'[i].kind = "reconnect"]_vars

\* C22: while the browser reports offline the reconnection logic neither
\* increments reconnectAttempts nor calls socket.connect(), also not from a
\* reconnect timer scheduled before the network went offline.
NoReconnectWhileOffline ==
  [][~online' => /\ reconnectAttempts' <= reconnectAttempts
                 /\ connectCalls' = 0]_vars

\* C23: the messages one drain passes to socket.emit, on a connect event or
\* in the periodic sweep, are passed in the order they have in the queue,
\* which is the order in which they were enqueued.
QueuePos(id) ==
  IF \E k \in 1..Len(messageQueue) : messageQueue[k].id = id
  THEN CHOOSE k \in 1..Len(messageQueue) : messageQueue[k].id = id
  ELSE 0

FifoDrain ==
  [][\A i, j \in 1..Len(emitted') :
       (i < j /\ QueuePos(emitted'[i].id) # 0 /\ QueuePos(emitted'[j].id) # 0)
         => QueuePos(emitted'[i].id) < QueuePos(emitted'[j].id)]_vars

\* One drain has sent two messages, the one made later first because it had
\* been re-queued first.
FifoDrainWitness ==
  /\ Len(emitted) = 2
  /\ emitted[1].event = "canvas_update" /\ emitted[2].event = "canvas_update"
  /\ emitted[1].id > emitted[2].id
  /\ messageQueue = <<>>

\* C24 (as claimed): a disconnect event with reason 'io server disconnect'
\* starts no reconnection attempt, and none is started while its grace
\* period of GraceDelay ms is running: reconnectAttempts is not incremented
\* and socket.connect() is not called before the grace timer is due; with
\* another reason attemptReconnection runs in the handler, and the
\* socket.connect() it schedules waits for the backoff delay only.
GraceTimer(t) ==
  [kind |-> "grace", due |-> t + GraceDelay, delay |-> GraceDelay,
   attempt |-> 0, jitter |-> 0]

GraceBeforeReconnect ==
  [][/\ SocketDisconnect("io server disconnect")
          => /\ reconnectAttempts' = reconnectAttempts
             /\ connectCalls' = 0
             /\ timers' = Append(timers, GraceTimer(now))
     /\ (\E i \in 1..Len(timers) :
            timers[i].kind = "grace" /\ now' < timers[i].due)
          => /\ reconnectAttempts' <= reconnectAttempts
             /\ connectCalls' = 0
     /\ (SocketDisconnect("transport close") /\ online
         /\ reconnectAttempts < maxReconnectAttempts)
          => /\ reconnectAttempts' > reconnectAttempts
             /\ connectCalls' = 0
             /\ \E k \in 1..Len(timers') :
                  /\ timers'[k].kind = "reconnect"
                  /\ timers'[k].attempt = reconnectAttempts + 1
                  /\ timers'[k].due = now + timers'[k].delay
                  /\ timers'[k].delay <= BaseDelay(reconnectAttempts + 1)
                                           + JitterRange]_vars

\* C25: when disconnect() or cleanup() returns no timer of the service is
\* pending: the heartbeat interval and the queue-drain interval are cleared
\* and no reconnect or grace timer is left.
TimersTornDown ==
  [][(Disconnect \/ Cleanup)
       => (~heartbeat' /\ ~queueInterval' /\ timers' = <<>>)]_vars

\* C26: a payload that is not a well-formed canvas update is caught inside
\* handleCanvasUpdate: the handler does not throw to the socket that called
\* it, stays registered, and leaves the echo flag released so that the
\* updates that follow are applied as usual.
MalformedCaught ==
  [][(received' # <<>> /\ received'[1].event = "malformed_update")
       => /\ ~received'[1].threw
          /\ listening' /\ mounted'
          /\ pendingLoads = <<>> => ~isReceivingUpdate']_vars

\* C27: every mutation of the scene graph, the ones applied from a remote
\* canvas_update included, pushes one serialized snapshot of the new scene
\* graph onto the undo history.
MutationPushesSnapshot ==
  [][canvasObjects' # canvasObjects
       => /\ Len(historyLog') = 1 /\ historyLog'[1].call = "saveState"
          /\ history'[currentIndex' + 1] = Serialize(canvasObjects')]_vars

\* C28: the echo flag is released once the handler of an incoming
\* canvas_update and the callback of the load it started have finished:
\* isReceivingUpdate is set only while such a load is pending.
FlagReleased ==
  isReceivingUpdate =>
    \E i \in 1..Len(pendingLoads) : pendingLoads[i].cb = "update"

\* C29: while online and below the cap, one disconnect event with a reason
\* other than 'io server disconnect' counts one reconnection attempt and
\* schedules one reconnect timer.
OneAttemptPerDisconnect ==
  [][(SocketDisconnect("transport close") /\ online
      /\ reconnectAttempts < maxReconnectAttempts)
       => /\ reconnectAttempts' = reconnectAttempts + 1
          /\ Len(timers') = Len(timers) + 1]_vars

\* C30: a callback registered with webSocketService.on is invoked for every
\* later incoming event of its name: no session event arrives on a socket
\* that does not carry the handlers the SessionManager registered.
ListenerInvoked ==
  [][received' # <<>> => received'[1].event # "unhandled"]_vars

====
